---- MODULE Spec2Model ----
(***************************************************************************)
(* A model of the SoftJS software renderer (src/src/Renderer.ts and its    *)
(* Math helpers in src/unnamed/part_003).                                  *)
(*                                                                         *)
(* Five specifications share the variables and the pure operators:         *)
(*   SpecDepth  the depth buffer under clearZ / depthTest calls            *)
(*   SpecPixel  the framebuffer under setPixel calls                       *)
(*   SpecFrame  the frame driver: start, stop, benchmark, refresh ticks    *)
(*   SpecTri    renderTriangle on one triangle in a freshly cleared frame  *)
(*   SpecObj    OBJLoader.parse converting one group of faces to a mesh    *)
(*                                                                         *)
(* Numbers.  A JavaScript double holding a depth is an integer count of    *)
(* depth units; the Float32Array cells of zBuffer hold only the multiples  *)
(* of F32Step, so storing a depth rounds it (Fround).  Screen coordinates  *)
(* are exact rationals with denominator Sub (sub-pixel units).             *)
(***************************************************************************)
EXTENDS Integers, Sequences, FiniteSets, TLC

VARIABLES
    zBuffer,              \* Float32Array(width*height), index -> depth
    data32,               \* Uint32Array view of the pixel store, index -> packed RGBA
    display,              \* what putImageData last copied to the canvas
    littleEndian,         \* byte order detected by the constructor
    running,              \* Renderer.running
    rafQueue,             \* loop callbacks registered with requestAnimationFrame
    mainCamera,           \* TRUE when a camera is set, FALSE for null
    mainDirectionalLight, \* TRUE when a light is set, FALSE for null
    options,              \* [shading, snapVertices]
    objModels,            \* the triangles of the loaded meshes, in draw order
    pc,                   \* index into the executing handler's body, 0 when none
    handler,              \* "none" | "loop" | "bench": the handler that is executing
    tickTodo,             \* callbacks of the current refresh tick still to run
    benchFrames,          \* benchmark's argument
    benchI,               \* benchmark's loop counter i
    triI,                 \* renderMesh's position in the triangle batch
    zMin,                 \* history: per pixel, least z passed to depthTest since clearZ
    lastCall,             \* history: the last buffer call, its arguments and result
    iterLog,              \* history: the events of the current iteration, in order
    tickFrames,           \* history: frames begun during the current refresh tick
    hist,                 \* history: stop seen, tallies of the last benchmark call
    triOut,               \* SpecTri: what renderTriangle did
    loader,               \* OBJLoader.parse: the group being converted to a mesh
    view,                 \* mat4LookAt: its arguments and the matrix it returned
    line                  \* drawLine3DEFLA: its arguments and the points it plotted

vars == <<zBuffer, data32, display, littleEndian, running, rafQueue, mainCamera,
          mainDirectionalLight, options, objModels, pc, handler, tickTodo,
          benchFrames, benchI, triI, zMin, lastCall, iterLog, tickFrames, hist,
          triOut, loader, view, line>>

---------------------------------------------------------------------------
(* Bounds of the model.                                                    *)

HalfW == 3          \* canvas width  = 2 * HalfW
HalfH == 2          \* canvas height = 2 * HalfH
Sub == 2            \* sub-pixel units per pixel
MaxZ == 5           \* depths passed to depthTest range over 0..MaxZ and +Infinity
MaxRaf == 2         \* cap on pending requestAnimationFrame callbacks
MaxBench == 2       \* benchmark(frames) is called with frames in 0..MaxBench

Width == 2 * HalfW
Height == 2 * HalfH
NumCells == Width * Height
Cells == 0 .. (NumCells - 1)

---------------------------------------------------------------------------
(* Numbers.                                                                *)

Min2(a, b) == IF a <= b THEN a ELSE b
Max2(a, b) == IF a >= b THEN a ELSE b

\* Math.floor and Math.ceil of the rational n/d, d > 0.
FloorDiv(n, d) == n \div d
CeilDiv(n, d) == -((-n) \div d)

\* Math.round of the rational n/d, d > 0: floor(n/d + 1/2).
RoundDiv(n, d) == (2 * n + d) \div (2 * d)

\* Number.POSITIVE_INFINITY, above every finite depth and every rounded one.
PosInf == MaxZ + 2

\* Spacing of the float32 values among the doubles of the model.
F32Step == 2

\* Storing a double into a Float32Array cell: round to the nearest float32,
\* ties to the even mantissa; +Infinity stays +Infinity.
Fround(z) ==
    IF z >= PosInf THEN PosInf
    ELSE LET lo == (z \div F32Step) * F32Step
             hi == lo + F32Step
         IN  IF z = lo THEN lo
             ELSE IF 2 * (z - lo) < F32Step THEN lo
             ELSE IF 2 * (z - lo) > F32Step THEN hi
             ELSE IF (lo \div F32Step) % 2 = 0 THEN lo ELSE hi

---------------------------------------------------------------------------
(* Framebuffer and depth buffer (Renderer.ts, "Utility Methods").          *)

\* clearZ: this.zBuffer.fill(Number.POSITIVE_INFINITY)
ClearZFill == PosInf
clearZ == [i \in Cells |-> ClearZFill]

\* packRGBA for byte-valued channels: the 32-bit word, written as its four
\* bytes from the most to the least significant.
packRGBA(le, r, g, b, a) ==
    IF le THEN <<a, b, g, r>> ELSE <<r, g, b, a>>

\* The bytes of a word of data32 as buf8 (and putImageData) sees them, in
\* memory order on a machine of the byte order le.
MemBytes(le, w) == IF le THEN <<w[4], w[3], w[2], w[1]>> ELSE w

\* clear(r, g, b, a): this.data32.fill(packed)
clear(le, r, g, b, a) == [i \in Cells |-> packRGBA(le, r, g, b, a)]

\* The comparison of depthTest: it fails when z >= zBuffer[idx].  A read
\* outside the array is undefined, and z >= undefined is false.
DepthFailsNonStrict(zb, idx, z) == idx \in DOMAIN zb /\ z > zb[idx]
DepthFails(zb, idx, z) == idx \in DOMAIN zb /\ z >= zb[idx]

\* depthTest(x, y, z): [ret, zb].  A store outside the array is ignored.
depthTestNoStore(zb, x, y, z) ==
    [ret |-> ~DepthFails(zb, y * Width + x, z), zb |-> zb]
depthTest(zb, x, y, z) ==
    LET idx == y * Width + x
    IN  IF DepthFails(zb, idx, z)
        THEN [ret |-> FALSE, zb |-> zb]
        ELSE [ret |-> TRUE,
              zb |-> IF idx \in DOMAIN zb
                     THEN [zb EXCEPT ![idx] = Fround(z)]
                     ELSE zb]

\* setPixel(x, y, r, g, b, a): a bounds-checked store of the packed colour.
\* A store outside the array is ignored.
setPixelUnchecked(fb, le, x, y, r, g, b, a) ==
    IF (y * Width + x) \in DOMAIN fb
    THEN [fb EXCEPT ![y * Width + x] = packRGBA(le, r, g, b, a)]
    ELSE fb
setPixel(fb, le, x, y, r, g, b, a) ==
    IF x < 0 \/ x >= Width \/ y < 0 \/ y >= Height THEN fb
    ELSE [fb EXCEPT ![y * Width + x] = packRGBA(le, r, g, b, a)]

---------------------------------------------------------------------------
(* Projection (Math: projectVertex, transformTriangleToScreen).            *)
(*                                                                         *)
(* A vertex enters the model as clip = mat4MulVec4(mvp, pos), with integer *)
(* components.  Screen x and y are kept in sub-pixel units (1/Sub pixel),  *)
(* screen z in depth units (screenZ = 1.0 is MaxZ units).                  *)

Null == [null |-> TRUE]

\* n / d for d # 0, rounded down, with the sign moved to the numerator.
QuotFloor(n, d) == IF d > 0 THEN n \div d ELSE (-n) \div (-d)
QuotRound(n, d) == IF d > 0 THEN RoundDiv(n, d) ELSE RoundDiv(-n, -d)

\* projectVertex: null when clip.w === 0, else the perspective divide and the
\* viewport map, y flipped.
ProjectRejects(clip) == clip.w = 0

projectVertex(clip) ==
    IF ProjectRejects(clip) THEN Null
    ELSE [null |-> FALSE,
          x |-> QuotFloor((clip.x + clip.w) * Width * Sub, 2 * clip.w),
          y |-> QuotFloor((clip.w - clip.y) * Height * Sub, 2 * clip.w),
          z |-> QuotRound((clip.z + clip.w) * MaxZ, 2 * clip.w),
          w |-> clip.w]

\* transformTriangleToScreen: null when any of the three projections is null.
transformTriangleToScreenUnitW(a, b, c) ==
    LET Sub0(v) == IF ProjectRejects(v) THEN [v EXCEPT !.w = 1] ELSE v
    IN  [null |-> FALSE,
         v |-> <<projectVertex(Sub0(a)), projectVertex(Sub0(b)),
                 projectVertex(Sub0(c))>>]
transformTriangleToScreen(a, b, c) ==
    LET pa == projectVertex(a)
        pb == projectVertex(b)
        pc3 == projectVertex(c)
    IN  IF pa.null \/ pb.null \/ pc3.null THEN Null
        ELSE [null |-> FALSE, v |-> <<pa, pb, pc3>>]

\* The grid pitch renderTriangle passes to snapVertexToGrid.
SnapGrid == 5

\* snapVertexToGrid: Math.round(v / gridSize) * gridSize on x and y.
snapVertexToGrid(v, gridSize) ==
    [v EXCEPT !.x = RoundDiv(v.x, gridSize * Sub) * gridSize * Sub,
              !.y = RoundDiv(v.y, gridSize * Sub) * gridSize * Sub]

\* isTriangleClipped: all three vertices outside [0,width) x [0,height).
outOfBounds(v) ==
    v.x < 0 \/ v.x >= Width * Sub \/ v.y < 0 \/ v.y >= Height * Sub

isTriangleClipped(v0, v1, v2) ==
    outOfBounds(v0) /\ outOfBounds(v1) /\ outOfBounds(v2)

\* The signed area of renderTriangle (in squared sub-pixel units).
area2(a, b, c) == (b.x - a.x) * (c.y - a.y) - (b.y - a.y) * (c.x - a.x)

\* renderTriangle returns without drawing when area2 > 0.
IsCulled(a, b, c) == area2(a, b, c) > 0

---------------------------------------------------------------------------
(* The scanline rasterizer (Renderer.drawTriangleScanline).                *)

\* [v0, v1, v2].sort((p, q) => p.y - q.y): a stable sort of three elements.
SortByY(s) ==
    LET s1 == IF s[2].y < s[1].y THEN <<s[2], s[1], s[3]>> ELSE s
        s2 == IF s1[3].y < s1[2].y THEN <<s1[1], s1[3], s1[2]>> ELSE s1
    IN  IF s2[2].y < s2[1].y THEN <<s2[2], s2[1], s2[3]>> ELSE s2

precomputeEdge(vStart, vEnd) ==
    [vStart |-> vStart, vEnd |-> vEnd, dx |-> vEnd.x - vStart.x,
     dy |-> vEnd.y - vStart.y, dz |-> vEnd.z - vStart.z]

\* The edge taken at its start vertex whatever the row.
interpolateEdgeAtStart(edge, y) == <<edge.vStart.x, Sub>>
\* interpolateEdge(edge, y) for the pixel row y: the x intersection in pixels,
\* as the rational <<n, d>>, d > 0.  After the sort dy >= 0.
interpolateEdge(edge, y) ==
    IF edge.dy = 0 THEN <<edge.vStart.x, Sub>>
    ELSE <<edge.vStart.x * edge.dy + edge.dx * (y * Sub - edge.vStart.y),
           Sub * edge.dy>>

RatGreater(p, q) == p[1] * q[2] > q[1] * p[2]

\* interpolateZ: edgeAC.vStart.z + (edgeAC.vEnd.z - edgeAC.vStart.z) * t, with
\* t = (x2 === x1) ? 0 : (x - x1) / (x2 - x1), rounded to a depth unit.
interpolateZ(edgeAC, x, x1, x2) ==
    LET tn == (x * x1[2] - x1[1]) * x2[2]
        td == x2[1] * x1[2] - x1[1] * x2[2]
    IN  IF td = 0 THEN edgeAC.vStart.z
        ELSE RoundDiv(edgeAC.vStart.z * td + edgeAC.dz * tn, td)

\* The fragments of pixel row y, left to right: <<x, y, z>>.
RowFragments(a, b, c, y) ==
    LET edgeAC == precomputeEdge(a, c)
        edgeAB == precomputeEdge(a, b)
        edgeBC == precomputeEdge(b, c)
        i1 == interpolateEdge(edgeAC, y)
        i2 == IF y * Sub < b.y THEN interpolateEdge(edgeAB, y)
              ELSE interpolateEdge(edgeBC, y)
        x1 == IF RatGreater(i1, i2) THEN i2 ELSE i1
        x2 == IF RatGreater(i1, i2) THEN i1 ELSE i2
        startX == Max2(0, CeilDiv(x1[1], x1[2]))
        endX == Min2(Width - 1, FloorDiv(x2[1], x2[2]))
    IN  [k \in 1 .. (endX - startX + 1) |->
            <<startX + k - 1, y, interpolateZ(edgeAC, startX + k - 1, x1, x2)>>]

RECURSIVE RowsFrom(_, _, _, _, _)
RowsFrom(a, b, c, y, maxY) ==
    IF y > maxY THEN << >>
    ELSE RowFragments(a, b, c, y) \o RowsFrom(a, b, c, y + 1, maxY)

\* Every (x, y, z) the two loops of drawTriangleScanline visit, in order.
ScanFragments(v0, v1, v2) ==
    LET s == SortByY(<<v0, v1, v2>>)
        minY == Max2(0, CeilDiv(s[1].y, Sub))
        maxY == Min2(Height - 1, FloorDiv(s[3].y, Sub))
    IN  RowsFrom(s[1], s[2], s[3], minY, maxY)

\* if (this.depthTest(x, y, z)) this.setPixel(x, y, color...) for each
\* fragment; pix and dep count the pixel stores and the depth stores, and
\* frags lists every (x, y) handed to depthTest.
RECURSIVE ApplyFragments(_, _, _, _)
ApplyFragments(b, frags, k, color) ==
    IF k > Len(frags) THEN b
    ELSE LET f == frags[k]
             t == depthTest(b.zb, f[1], f[2], f[3])
             fb2 == setPixel(b.fb, b.le, f[1], f[2],
                             color[1], color[2], color[3], 255)
             inPix == f[1] >= 0 /\ f[1] < Width /\ f[2] >= 0 /\ f[2] < Height
             inDep == (f[2] * Width + f[1]) \in DOMAIN b.zb
             seen == Append(b.frags, <<f[1], f[2]>>)
         IN  IF t.ret
             THEN ApplyFragments([b EXCEPT !.zb = t.zb, !.fb = fb2,
                                            !.pix = @ + (IF inPix THEN 1 ELSE 0),
                                            !.dep = @ + (IF inDep THEN 1 ELSE 0),
                                            !.frags = seen],
                                 frags, k + 1, color)
             ELSE ApplyFragments([b EXCEPT !.frags = seen], frags, k + 1, color)

drawTriangleScanline(b, v0, v1, v2, color) ==
    ApplyFragments(b, ScanFragments(v0, v1, v2), 1, color)

---------------------------------------------------------------------------
(* Shading and renderTriangle.                                             *)
(*                                                                         *)
(* A triangle is [clip, facing, idx, normals]: its three clip-space         *)
(* vertices, the value of vdot(faceNormal, -ldir) in percent, the vertex    *)
(* slots idx[i], idx[i+1], idx[i+2] of its corners and the normals array of *)
(* its mesh, one entry per vertex slot (entry j + 1 for slot j).  A normal  *)
(* is [dl, sp]: vdot(normal, toLight) and pow(specAngle, 16), in percent.   *)
(* Intensities are percents.                                               *)

BaseColor == <<200, 120, 60>>      \* base / the default colour of the rasterizer
AmbientPct == 15                   \* ambient = 0.15
LightIntensityPct == 60            \* the intensity of the example light

Clamp255(v) == Max2(0, Min2(255, v))

\* renderFlatShading's finalColor, each channel truncated as setPixel does (r | 0).
FlatColor(facing) ==
    LET li == Max2(0, facing) * LightIntensityPct
        k == AmbientPct * 10000 + (100 - AmbientPct) * li
    IN  <<Clamp255((BaseColor[1] * k) \div 1000000),
          Clamp255((BaseColor[2] * k) \div 1000000),
          Clamp255((BaseColor[3] * k) \div 1000000)>>

\* computeBlinnPhongLighting: base * (ambient + diff * diffuseIntensity +
\* specularIntensity), clamped; both intensities stay 0 when light is null.
computeBlinnPhongLighting(normal, light) ==
    LET diffuse == IF light THEN Max2(0, normal.dl) * LightIntensityPct ELSE 0
        specular == IF light THEN normal.sp * LightIntensityPct ELSE 0
        k == AmbientPct * 10000 + (100 - AmbientPct) * diffuse + 100 * specular
    IN  <<Clamp255((BaseColor[1] * k) \div 1000000),
          Clamp255((BaseColor[2] * k) \div 1000000),
          Clamp255((BaseColor[3] * k) \div 1000000)>>

\* What renderTriangle did: the buffers, whether it threw, where it ended, and
\* the colours it attached to the three screen vertices (none: << >>).
Drawn(b, stage) == [b |-> b, threw |-> FALSE, stage |-> stage, vc |-> << >>]
Threw(b, stage) == [b |-> b, threw |-> TRUE, stage |-> stage, vc |-> << >>]

\* sv.color = [...]: the screen vertex with a colour attached.
WithColor(v, c) ==
    [null |-> v.null, x |-> v.x, y |-> v.y, z |-> v.z, w |-> v.w, color |-> c]

\* renderFlatShading: reads this.mainDirectionalLight!.direction first, which
\* throws a TypeError when the light is null.
FlatNeedsLight(light) == ~light

renderFlatShading(b, s, facing, light) ==
    IF FlatNeedsLight(light) THEN Threw(b, "flat")
    ELSE Drawn(drawTriangleScanline(b, s[1], s[2], s[3], FlatColor(facing)),
               "flat")

\* renderBlinnPhongShading: reads this.mainCamera!.position (a TypeError when
\* the camera is null); computeBlinnPhongLighting guards the light with
\* if (light), so a null light leaves the ambient term only.  The vertex
\* colours are computed from normals[0..2], normals[3..5], normals[6..8]: the
\* normals of the vertex slots 0, 1 and 2.  The rasterizer is called without
\* a colour and uses its default.
renderBlinnPhongShading(b, s, camera, light, normals) ==
    IF ~camera THEN Threw(b, "blinn-phong")
    ELSE LET vertexColors ==
                 <<computeBlinnPhongLighting(normals[1], light),
                   computeBlinnPhongLighting(normals[2], light),
                   computeBlinnPhongLighting(normals[3], light)>>
             sv0 == WithColor(s[1], vertexColors[1])
             sv1 == WithColor(s[2], vertexColors[2])
             sv2 == WithColor(s[3], vertexColors[3])
         IN  [Drawn(drawTriangleScanline(b, sv0, sv1, sv2, BaseColor),
                    "blinn-phong") EXCEPT !.vc = vertexColors]

\* The screen vertices renderTriangle tests and draws: snapped first when
\* options.snapVertices is set.
SnappedVerts(sv, opts) ==
    IF opts.snapVertices
    THEN <<snapVertexToGrid(sv[1], SnapGrid), snapVertexToGrid(sv[2], SnapGrid),
           snapVertexToGrid(sv[3], SnapGrid)>>
    ELSE sv

\* renderTriangle with the default colour drawn when no shading branch is taken.
renderTriangleFillsUnshaded(b, tri, opts, camera, light) ==
    LET t == transformTriangleToScreen(tri.clip[1], tri.clip[2], tri.clip[3])
    IN  IF t.null THEN Drawn(b, "dropped")
        ELSE LET s == SnappedVerts(t.v, opts)
             IN  IF isTriangleClipped(s[1], s[2], s[3]) THEN Drawn(b, "clipped")
                 ELSE IF IsCulled(s[1], s[2], s[3]) THEN Drawn(b, "culled")
                 ELSE IF opts.shading = "flat"
                      THEN renderFlatShading(b, s, tri.facing, light)
                 ELSE IF opts.shading = "blinn-phong"
                      THEN renderBlinnPhongShading(b, s, camera, light,
                                                   tri.normals)
                 ELSE Drawn(drawTriangleScanline(b, s[1], s[2], s[3], BaseColor),
                            "unshaded")
renderTriangle(b, tri, opts, camera, light) ==
    LET t == transformTriangleToScreen(tri.clip[1], tri.clip[2], tri.clip[3])
    IN  IF t.null THEN Drawn(b, "dropped")
        ELSE LET s == SnappedVerts(t.v, opts)
             IN  IF isTriangleClipped(s[1], s[2], s[3]) THEN Drawn(b, "clipped")
                 ELSE IF IsCulled(s[1], s[2], s[3]) THEN Drawn(b, "culled")
                 ELSE IF opts.shading = "flat"
                      THEN renderFlatShading(b, s, tri.facing, light)
                 ELSE IF opts.shading = "blinn-phong"
                      THEN renderBlinnPhongShading(b, s, camera, light,
                                                   tri.normals)
                 ELSE Drawn(b, "unshaded")

---------------------------------------------------------------------------
(* The OBJ loader (OBJLoader.parse, src/Camera.js).                        *)
(*                                                                         *)
(* The file's v, vt and vn lines are the arrays RawPositions, RawUVs and   *)
(* RawNormals.  A face corner "v/vt/vn" is <<v, vt, vn>>, each component   *)
(* the sequence of its parsed index: << >> for a component left out.       *)

MaxCorners == 6     \* cap on the face corners of the group, over all its faces

\* v 0 0 0 / v 1 0 0 / v 1 1 0 / v 0 1 0, vt 0 0, vn 0 0 1
RawPositions == <<0, 0, 0, 1, 0, 0, 1, 1, 0, 0, 1, 0>>
RawUVs == <<0, 0>>
RawNormals == <<0, 0, 1>>

\* The corners "1", "2", "3", "4", "-4" (the first position again) and "1/1/1".
Corners ==
    {<<<<1>>, << >>, << >>>>, <<<<2>>, << >>, << >>>>, <<<<3>>, << >>, << >>>>,
     <<<<4>>, << >>, << >>>>, <<<<-4>>, << >>, << >>>>, <<<<1>>, <<1>>, <<1>>>>}

\* triFan: (indices[0], indices[i], indices[i+1]) for i = 1, 2, ... while
\* i + 1 < indices.length.
RECURSIVE TriFanFrom(_, _)
TriFanFrom(indices, i) ==
    IF i + 1 < Len(indices)
    THEN <<indices[1], indices[i + 1], indices[i + 2]>> \o TriFanFrom(indices, i + 1)
    ELSE << >>
\* The fan with every other triangle left out (i += 2).
RECURSIVE TriFanStride2From(_, _)
TriFanStride2From(indices, i) ==
    IF i + 1 < Len(indices)
    THEN <<indices[1], indices[i + 1], indices[i + 2]>>
             \o TriFanStride2From(indices, i + 2)
    ELSE << >>
triFanStride2(indices) == TriFanStride2From(indices, 1)
triFan(indices) == TriFanFrom(indices, 1)

\* resolveIndex on the parsed integer: i - 1 when i > 0, else arrayLength + i.
resolveIndex(i, arrayLength) == IF i > 0 THEN i - 1 ELSE arrayLength + i

\* comps[k] ? resolveIndex(comps[k], n) : undefined
ResolveOptional(comp, arrayLength) ==
    IF comp = << >> THEN << >> ELSE <<resolveIndex(comp[1], arrayLength)>>

\* The number a Float32Array holds for an undefined element: NaN.  It is a
\* value no coordinate and no sum of cross products of the model reaches.
NaN == -1000

\* arr[i] of a number[] read into the positions: undefined (then NaN) when
\* i is not an index of arr.
RawAt(arr, i) == IF (i + 1) \in DOMAIN arr THEN arr[i + 1] ELSE NaN

\* Arithmetic of numbers that may be NaN.
NAdd(a, b) == IF a = NaN \/ b = NaN THEN NaN ELSE a + b
NSub(a, b) == IF a = NaN \/ b = NaN THEN NaN ELSE a - b
NMul(a, b) == IF a = NaN \/ b = NaN THEN NaN ELSE a * b

\* arr[i] ?? 0
OrZero(arr, i) == IF (i + 1) \in DOMAIN arr THEN arr[i + 1] ELSE 0

\* The slot vertexMap holds for key, as << slot >>, or << >>.
VertexMapGet(keys, key) ==
    IF \E j \in DOMAIN keys : keys[j] = key
    THEN <<(CHOOSE j \in DOMAIN keys : keys[j] = key) - 1>>
    ELSE << >>

\* addVertex without the vertexMap lookup: a new slot for every corner.
addVertexAlways(g, vIdx, vtIdx, vnIdx) ==
    [g |-> [g EXCEPT
              !.keys = Append(@, <<vIdx, vtIdx, vnIdx>>),
              !.positions = @ \o <<RawAt(RawPositions, vIdx * 3),
                                   RawAt(RawPositions, vIdx * 3 + 1),
                                   RawAt(RawPositions, vIdx * 3 + 2)>>,
              !.uvs = @ \o <<0, 0>>,
              !.normals = @ \o (IF vnIdx # << >>
                                THEN <<OrZero(RawNormals, vnIdx[1] * 3),
                                       OrZero(RawNormals, vnIdx[1] * 3 + 1),
                                       OrZero(RawNormals, vnIdx[1] * 3 + 2)>>
                                ELSE <<0, 0, 0>>)],
     idx |-> Len(g.positions) \div 3]
\* addVertex(vIdx, vtIdx, vnIdx) on the group g: [g, idx].  The key is the
\* triple of the resolved indices; keys[j + 1] is the key of slot j.
addVertex(g, vIdx, vtIdx, vnIdx) ==
    LET key == <<vIdx, vtIdx, vnIdx>>
        found == VertexMapGet(g.keys, key)
        idx == Len(g.positions) \div 3
        pos == <<RawAt(RawPositions, vIdx * 3), RawAt(RawPositions, vIdx * 3 + 1),
                 RawAt(RawPositions, vIdx * 3 + 2)>>
        uv == IF vtIdx # << >>
              THEN <<OrZero(RawUVs, vtIdx[1] * 2), OrZero(RawUVs, vtIdx[1] * 2 + 1)>>
              ELSE <<0, 0>>
        nrm == IF vnIdx # << >>
               THEN <<OrZero(RawNormals, vnIdx[1] * 3),
                      OrZero(RawNormals, vnIdx[1] * 3 + 1),
                      OrZero(RawNormals, vnIdx[1] * 3 + 2)>>
               ELSE <<0, 0, 0>>
    IN  IF found # << >> THEN [g |-> g, idx |-> found[1]]
        ELSE [g |-> [g EXCEPT !.keys = Append(@, key),
                              !.positions = @ \o pos,
                              !.uvs = @ \o uv,
                              !.normals = @ \o nrm],
              idx |-> idx]

\* The vector stored for vertex slot j in a flat array of 3 per vertex.
Vec3At(arr, j) == <<arr[3 * j + 1], arr[3 * j + 2], arr[3 * j + 3]>>
VSub(a, b) == <<NSub(a[1], b[1]), NSub(a[2], b[2]), NSub(a[3], b[3])>>
VCross(u, v) ==
    <<NSub(NMul(u[2], v[3]), NMul(u[3], v[2])),
      NSub(NMul(u[3], v[1]), NMul(u[1], v[3])),
      NSub(NMul(u[1], v[2]), NMul(u[2], v[1]))>>
Abs(x) == IF x < 0 THEN -x ELSE x

\* Math.hypot(nx, ny, nz) || 1.  The positions of the model lie in the plane
\* z = 0, so every face normal is along z and the length is an integer.
\* The hypot of a vector with a NaN component is NaN, and NaN || 1 is 1.
HypotOrOne(n) ==
    IF \E k \in 1 .. 3 : n[k] = NaN THEN 1
    ELSE LET sq == n[1] * n[1] + n[2] * n[2] + n[3] * n[3]
             len == CHOOSE r \in 0 .. (Abs(n[1]) + Abs(n[2]) + Abs(n[3])) :
                        r * r = sq
         IN  IF len = 0 THEN 1 ELSE len

\* normals[3j..3j+2] += n for the slot j.
AddAt(normals, j, n) ==
    [k \in DOMAIN normals |->
        IF k \in (3 * j + 1) .. (3 * j + 3) THEN NAdd(normals[k], n[k - 3 * j])
        ELSE normals[k]]

\* The accumulation loop over the triangles i, i + 3, ... (i counts from 0).
RECURSIVE AccumulateNormals(_, _, _, _)
AccumulateNormals(normals, positions, indices, i) ==
    IF i >= Len(indices) THEN normals
    ELSE LET a == indices[i + 1]
             b == indices[i + 2]
             c == indices[i + 3]
             n == VCross(VSub(Vec3At(positions, b), Vec3At(positions, a)),
                         VSub(Vec3At(positions, c), Vec3At(positions, a)))
         IN  AccumulateNormals(AddAt(AddAt(AddAt(normals, a, n), b, n), c, n),
                               positions, indices, i + 3)

\* The normalisation loop: each component divided by the vector's length.
NormalizeAll(normals) ==
    [k \in DOMAIN normals |->
        IF normals[k] = NaN THEN NaN
        ELSE normals[k] \div HypotOrOne(Vec3At(normals, (k - 1) \div 3))]

needComputeNormals(normals) == \A k \in DOMAIN normals : normals[k] = 0

\* The normals of the mesh: computed from the faces when all were zero.
MeshNormals(g) ==
    IF needComputeNormals(g.normals)
    THEN NormalizeAll(AccumulateNormals([k \in DOMAIN g.normals |-> 0],
                                        g.positions, g.indices, 0))
    ELSE g.normals

\* The group before its first face: empty vertexMap and arrays.
LoaderStart ==
    [phase |-> "faces", face |-> << >>, keys |-> << >>, positions |-> << >>,
     normals |-> << >>, uvs |-> << >>, indices |-> << >>, corners |-> 0,
     seen |-> {}, lastFace |-> << >>, lastTri |-> << >>, given |-> << >>,
     synth |-> FALSE]

---------------------------------------------------------------------------
(* Values the variables hold when a specification does not use them.       *)

NoCall == [op |-> "none", x |-> 0, y |-> 0, z |-> 0, ret |-> FALSE,
           before |-> clearZ]
NoHist == [stopped |-> FALSE, clears |-> 0, zclears |-> 0, renders |-> 0,
           presents |-> 0, rafAtCall |-> 0, iterCamera |-> TRUE,
           iterLight |-> TRUE]
NoTriOut == [done |-> FALSE, threw |-> FALSE, stage |-> "none", pix |-> 0,
             dep |-> 0, vc |-> << >>, frags |-> << >>]
ZeroPixels == [i \in Cells |-> <<0, 0, 0, 0>>]
NoView == [done |-> FALSE, eye |-> <<0, 0, 0>>, target |-> <<0, 0, 0>>,
           up |-> <<0, 0, 0>>, m |-> << >>]
NoLine == [done |-> FALSE, from |-> <<0, 0, 0>>, to |-> <<0, 0, 0>>,
           plotted |-> << >>]

BuffersInit ==
    /\ zBuffer = clearZ            \* the constructor calls clearZ
    /\ data32 = ZeroPixels         \* a new ArrayBuffer is zero-filled
    /\ display = ZeroPixels

DriverIdle ==
    /\ running = FALSE
    /\ rafQueue = 0
    /\ pc = 0
    /\ handler = "none"
    /\ tickTodo = 0
    /\ benchFrames = 0
    /\ benchI = 0
    /\ triI = 0
    /\ iterLog = << >>
    /\ tickFrames = 0
    /\ hist = NoHist

driverVars == <<running, rafQueue, pc, handler, tickTodo, benchFrames, benchI,
                triI, iterLog, tickFrames, hist>>
sceneVars == <<mainCamera, mainDirectionalLight, options, objModels>>

---------------------------------------------------------------------------
(* SpecDepth: the depth buffer under any sequence of clearZ and depthTest  *)
(* calls on in-range pixels.                                               *)

TestPixels == {<<0, 0>>, <<Width - 1, 0>>, <<0, 1>>}
ZValues == (0 .. MaxZ) \cup {PosInf}

InitDepth ==
    /\ BuffersInit
    /\ DriverIdle
    /\ littleEndian \in BOOLEAN
    /\ mainCamera = FALSE
    /\ mainDirectionalLight = FALSE
    /\ options = [shading |-> "none", snapVertices |-> FALSE]
    /\ objModels = << >>
    /\ zMin = [i \in Cells |-> PosInf]
    /\ lastCall = NoCall
    /\ triOut = NoTriOut
    /\ loader = LoaderStart
    /\ view = NoView
    /\ line = NoLine

DepthClearZ ==
    /\ zBuffer' = clearZ
    /\ zMin' = [i \in Cells |-> PosInf]
    /\ lastCall' = [NoCall EXCEPT !.op = "clearZ", !.before = zBuffer]
    /\ UNCHANGED <<data32, display, littleEndian, loader, view, line, triOut>>
    /\ UNCHANGED driverVars
    /\ UNCHANGED sceneVars

DepthTestCall ==
    \E p \in TestPixels, z \in ZValues :
        LET r == depthTest(zBuffer, p[1], p[2], z)
            idx == p[2] * Width + p[1]
        IN  /\ zBuffer' = r.zb
            /\ zMin' = [zMin EXCEPT ![idx] = Min2(@, z)]
            /\ lastCall' = [op |-> "depthTest", x |-> p[1], y |-> p[2], z |-> z,
                            ret |-> r.ret, before |-> zBuffer]
            /\ UNCHANGED <<data32, display, littleEndian, loader, view, line, triOut>>
            /\ UNCHANGED driverVars
            /\ UNCHANGED sceneVars

NextDepth == DepthClearZ \/ DepthTestCall

SpecDepth == InitDepth /\ [][NextDepth]_vars

LastIdx == lastCall.y * Width + lastCall.x

\* C1 (as amended): a depthTest call on an in-range pixel returns true exactly
\* when z is strictly less than the stored depth; it then stores z rounded to
\* float32 (Math.fround(z)) at that pixel and changes no other cell; a call
\* that returns false leaves the whole depth buffer unchanged.
C1_DepthTestStoresFround ==
    lastCall.op = "depthTest" =>
        /\ lastCall.ret <=> (lastCall.z < lastCall.before[LastIdx])
        /\ lastCall.ret =>
              zBuffer = [lastCall.before EXCEPT ![LastIdx] = Fround(lastCall.z)]
        /\ ~lastCall.ret => zBuffer = lastCall.before

\* C1 (as claimed): ... and then the stored depth at (x,y) becomes z itself.
C1_DepthTestStoresZ ==
    lastCall.op = "depthTest" =>
        /\ lastCall.ret <=> (lastCall.z < lastCall.before[LastIdx])
        /\ lastCall.ret =>
              zBuffer = [lastCall.before EXCEPT ![LastIdx] = lastCall.z]
        /\ ~lastCall.ret => zBuffer = lastCall.before

\* A passing call on a pixel that already held a finite depth.
C1_Witness ==
    /\ lastCall.op = "depthTest"
    /\ lastCall.ret
    /\ lastCall.before[LastIdx] < PosInf
    /\ zBuffer[LastIdx] < lastCall.before[LastIdx]

\* C2 (as amended): every depth cell is +Infinity right after clearZ, and at
\* every point the depth stored at a pixel is the float32 rounding of the
\* least z passed to depthTest for that pixel since the last clearZ
\* (+Infinity when there was none).
C2_StoredIsFroundOfMin ==
    /\ lastCall.op = "clearZ" => \A i \in Cells : zBuffer[i] = PosInf
    /\ \A i \in Cells : zBuffer[i] = Fround(zMin[i])

\* C2 (as claimed): the stored depth equals the least z itself.
C2_StoredIsMin ==
    /\ lastCall.op = "clearZ" => \A i \in Cells : zBuffer[i] = PosInf
    /\ \A i \in Cells : zBuffer[i] = zMin[i]

\* Two calls were made for one pixel and the later, smaller one was stored.
C2_Witness ==
    /\ lastCall.op = "depthTest"
    /\ lastCall.before[LastIdx] < PosInf
    /\ lastCall.z < lastCall.before[LastIdx]
    /\ zBuffer[LastIdx] = Fround(zMin[LastIdx])
    /\ zMin[LastIdx] = lastCall.z

---------------------------------------------------------------------------
(* SpecTri: renderTriangle on one triangle, in a freshly cleared frame.    *)

\* clip.w of the vertices in front of the camera: with it the projection of
\* ClipOf(X, Y, cz) is exactly the sub-pixel point (X, Y).
ClipW == HalfW * HalfH * Sub
ClipOf(X, Y, cz) ==
    [x |-> X * HalfH - ClipW, y |-> ClipW - Y * HalfW, z |-> cz, w |-> ClipW]

\* Screen positions of the vertices, in sub-pixel units: one pixel left of /
\* above the screen, half a pixel inside, two pixels inside, one pixel right
\* of / below it.
XGrid == {-Sub, 1, 2 * Sub, (Width + 1) * Sub}
YGrid == {-Sub, 1, (Height + 1) * Sub}
Unprojectable == [x |-> -1, y |-> -1, z |-> 0, w |-> 0]
ZPatterns == {<<-ClipW, -ClipW, -ClipW>>, <<-ClipW, 0, ClipW>>}
Facings == {100}
Shadings == {"none", "flat", "blinn-phong", "wireframe"}

\* The normals arrays of the meshes: four vertex slots (a quad), all normals
\* towards the light, or one normal per slot: towards the light, across it,
\* half way with a highlight, and away from it.
UniformNormals ==
    <<[dl |-> 100, sp |-> 0], [dl |-> 100, sp |-> 0], [dl |-> 100, sp |-> 0],
      [dl |-> 100, sp |-> 0]>>
QuadNormals ==
    <<[dl |-> 100, sp |-> 0], [dl |-> 0, sp |-> 0], [dl |-> 50, sp |-> 20],
      [dl |-> -100, sp |-> 0]>>

\* The triangles of the example scenes: a front-facing triangle covering the
\* top left of the screen, and the same triangle with the opposite winding.
FrontTri ==
    [clip |-> <<ClipOf(1, 1, -ClipW), ClipOf(1, (Height - 1) * Sub + 1, 0),
                ClipOf((Width - 1) * Sub + 1, 1, ClipW)>>,
     facing |-> 100, idx |-> <<0, 1, 2>>, normals |-> UniformNormals]
BackTri ==
    [clip |-> <<FrontTri.clip[1], FrontTri.clip[3], FrontTri.clip[2]>>,
     facing |-> 0, idx |-> <<0, 2, 1>>, normals |-> UniformNormals]
\* FrontTri with its second vertex unprojectable (clip.w = 0).
DropTri ==
    [clip |-> <<FrontTri.clip[1], Unprojectable, FrontTri.clip[3]>>,
     facing |-> 100, idx |-> <<0, 3, 2>>, normals |-> UniformNormals]

\* FrontTri as a triangle of a quad mesh: its corners in the slots idx, the
\* mesh's normals uniform or one per slot.
ShadeTriangles ==
    {[FrontTri EXCEPT !.idx = ix, !.normals = nt] :
        ix \in {<<0, 1, 2>>, <<0, 2, 3>>, <<3, 1, 0>>},
        nt \in {UniformNormals, QuadNormals}}

TriPositions == {<<X, Y>> : X \in XGrid, Y \in YGrid}

TriVertex(p, cz) == IF p = <<0, 0>> THEN Unprojectable ELSE ClipOf(p[1], p[2], cz)

Triangles ==
    {[clip |-> <<TriVertex(p0, zs[1]), TriVertex(p1, zs[2]), TriVertex(p2, zs[3])>>,
      facing |-> f, idx |-> <<0, 1, 2>>, normals |-> UniformNormals] :
        p0 \in TriPositions \cup {<<0, 0>>}, p1 \in TriPositions \cup {<<0, 0>>},
        p2 \in TriPositions \cup {<<0, 0>>}, zs \in ZPatterns, f \in Facings}

ClearColor == <<20, 20, 30>>

Bufs ==
    [zb |-> zBuffer, fb |-> data32, le |-> littleEndian, pix |-> 0, dep |-> 0,
     frags |-> << >>]

InitTri ==
    /\ DriverIdle
    /\ littleEndian = TRUE
    /\ zBuffer = clearZ
    /\ data32 = clear(littleEndian, ClearColor[1], ClearColor[2], ClearColor[3], 255)
    /\ display = ZeroPixels
    /\ mainCamera = TRUE
    /\ mainDirectionalLight \in BOOLEAN
    /\ options \in [shading : Shadings, snapVertices : BOOLEAN]
    /\ \E t \in Triangles \cup ShadeTriangles : objModels = <<t>>
    /\ zMin = [i \in Cells |-> PosInf]
    /\ lastCall = NoCall
    /\ triOut = NoTriOut
    /\ loader = LoaderStart
    /\ view = NoView
    /\ line = NoLine

RenderTriangleCall ==
    /\ ~triOut.done
    /\ LET r == renderTriangle(Bufs, objModels[1], options, mainCamera,
                               mainDirectionalLight)
       IN  /\ zBuffer' = r.b.zb
           /\ data32' = r.b.fb
           /\ triOut' = [done |-> TRUE, threw |-> r.threw, stage |-> r.stage,
                         pix |-> r.b.pix, dep |-> r.b.dep, vc |-> r.vc,
                         frags |-> r.b.frags]
    /\ UNCHANGED <<display, littleEndian, loader, view, line, zMin, lastCall>>
    /\ UNCHANGED driverVars
    /\ UNCHANGED sceneVars

NextTri == RenderTriangleCall

SpecTri == InitTri /\ [][NextTri]_vars

---------------------------------------------------------------------------
(* SpecFrame: the frame driver.  JavaScript runs one handler at a time, so *)
(* the calls of the page (start, stop, benchmark, setCamera, ...) and the  *)
(* refresh tick act only when no handler is executing; a handler advances  *)
(* statement by statement through its body.                                *)

\* renderPixel: the matrices (which read the camera), the meshes, then the
\* copy of the pixel store to the canvas.
renderPixelBody == <<"matrices", "renderMesh", "putImageData">>

\* The loop callback of start().
loopBodyPresentFirst ==
    <<"clear", "clearZ", "present">> \o renderPixelBody \o <<"reschedule">>
loopBody ==
    <<"clear", "clearZ">> \o renderPixelBody \o <<"present", "reschedule">>

\* benchmark(): for (i = 0; i < frames; i++) { ... } and the return.
benchBody ==
    <<"benchTest", "clear", "clearZ">> \o renderPixelBody
        \o <<"present", "benchInc", "benchReturn">>

Body == IF handler = "loop" THEN loopBody
        ELSE IF handler = "bench" THEN benchBody ELSE << >>

\* The statement the executing handler is at.
Step == IF pc = 0 THEN "idle" ELSE Body[pc]

IndexOf(body, name) == CHOOSE i \in DOMAIN body : body[i] = name

\* No handler is executing and no callback of the current tick is left.
Quiet == pc = 0 /\ tickTodo = 0

SceneModels == {<<FrontTri>>, <<BackTri, FrontTri>>, <<DropTri, FrontTri>>}
MaxTris == 2        \* cap on the triangles loaded by addModel

InitFrame ==
    /\ BuffersInit
    /\ DriverIdle
    /\ littleEndian = TRUE
    /\ mainCamera = FALSE
    /\ mainDirectionalLight = FALSE
    /\ options \in [shading : Shadings, snapVertices : {FALSE}]
    /\ objModels = << >>
    /\ zMin = [i \in Cells |-> PosInf]
    /\ lastCall = NoCall
    /\ triOut = NoTriOut
    /\ loader = LoaderStart
    /\ view = NoView
    /\ line = NoLine

bufferVars ==
    <<zBuffer, data32, display, littleEndian, loader, view, line, zMin, lastCall,
      triOut>>
handlerVars == <<pc, handler, tickTodo, benchFrames, benchI, triI, iterLog,
                 tickFrames>>

setCamera ==
    /\ Quiet
    /\ mainCamera' = TRUE
    /\ UNCHANGED <<mainDirectionalLight, options, objModels, running, rafQueue, hist>>
    /\ UNCHANGED bufferVars
    /\ UNCHANGED handlerVars

setDirectionalLight ==
    /\ Quiet
    /\ mainDirectionalLight' = TRUE
    /\ UNCHANGED <<mainCamera, options, objModels, running, rafQueue, hist>>
    /\ UNCHANGED bufferVars
    /\ UNCHANGED handlerVars

addModel ==
    /\ Quiet
    /\ \E m \in SceneModels :
        /\ Len(objModels) + Len(m) <= MaxTris
        /\ objModels' = objModels \o m
    /\ UNCHANGED <<mainCamera, mainDirectionalLight, options, running, rafQueue, hist>>
    /\ UNCHANGED bufferVars
    /\ UNCHANGED handlerVars

\* start(): if (this.running) return; this.running = true;
\* requestAnimationFrame(loop).
start ==
    /\ Quiet
    /\ running \/ rafQueue < MaxRaf
    /\ IF running
       THEN UNCHANGED <<running, rafQueue, hist>>
       ELSE /\ running' = TRUE
            /\ rafQueue' = rafQueue + 1
            /\ hist' = [hist EXCEPT !.stopped = FALSE]
    /\ UNCHANGED sceneVars
    /\ UNCHANGED bufferVars
    /\ UNCHANGED handlerVars

\* stop(): this.running = false.
stop ==
    /\ Quiet
    /\ running' = FALSE
    /\ hist' = [hist EXCEPT !.stopped = TRUE]
    /\ UNCHANGED rafQueue
    /\ UNCHANGED sceneVars
    /\ UNCHANGED bufferVars
    /\ UNCHANGED handlerVars

\* The value benchmark() assigns to this.running on entry.
benchmarkKeepsRunning(r) == r
benchmarkRunning(r) == FALSE

\* benchmark(frames): this.running = false, then the loop.
benchmark ==
    /\ Quiet
    /\ \E n \in 0 .. MaxBench : benchFrames' = n
    /\ running' = benchmarkRunning(running)
    /\ handler' = "bench"
    /\ pc' = 1
    /\ benchI' = 0
    /\ iterLog' = << >>
    /\ hist' = [hist EXCEPT !.clears = 0, !.zclears = 0, !.renders = 0,
                            !.presents = 0, !.rafAtCall = rafQueue,
                            !.iterCamera = mainCamera,
                            !.iterLight = mainDirectionalLight]
    /\ UNCHANGED <<rafQueue, tickTodo, triI, tickFrames>>
    /\ UNCHANGED sceneVars
    /\ UNCHANGED bufferVars

\* A display refresh: the callbacks registered so far are run, one after the
\* other; a callback registered meanwhile waits for the next refresh.
Tick ==
    /\ Quiet
    /\ rafQueue > 0
    /\ tickTodo' = rafQueue
    /\ rafQueue' = 0
    /\ tickFrames' = 0
    /\ UNCHANGED <<pc, handler, benchFrames, benchI, triI, iterLog, running, hist>>
    /\ UNCHANGED sceneVars
    /\ UNCHANGED bufferVars

\* The refresh runs the next loop callback.
LoopBegin ==
    /\ pc = 0
    /\ tickTodo > 0
    /\ tickTodo' = tickTodo - 1
    /\ handler' = "loop"
    /\ pc' = 1
    /\ iterLog' = << >>
    /\ tickFrames' = tickFrames + 1
    /\ hist' = [hist EXCEPT !.iterCamera = mainCamera,
                            !.iterLight = mainDirectionalLight]
    /\ UNCHANGED <<benchFrames, benchI, triI, running, rafQueue>>
    /\ UNCHANGED sceneVars
    /\ UNCHANGED bufferVars

\* rasterWorker.onmessage: this.buf8.set(buf8); this.present().
WorkerPixels == [i \in Cells |-> <<0, 0, 0, 0>>]
rasterWorkerMessage ==
    /\ Quiet
    /\ data32' = WorkerPixels
    /\ display' = [i \in Cells |-> MemBytes(littleEndian, WorkerPixels[i])]
    /\ UNCHANGED <<zBuffer, littleEndian, loader, view, line, zMin, lastCall, triOut>>
    /\ UNCHANGED <<running, rafQueue, hist>>
    /\ UNCHANGED sceneVars
    /\ UNCHANGED handlerVars

\* An uncaught TypeError ends the handler where it is.
Throws ==
    /\ pc' = 0
    /\ handler' = "none"
    /\ iterLog' = Append(iterLog, "throw")

\* this.clear(20, 20, 30)
StepClear ==
    /\ Step = "clear"
    /\ data32' = clear(littleEndian, ClearColor[1], ClearColor[2], ClearColor[3], 255)
    /\ iterLog' = Append(iterLog, "clear")
    /\ hist' = [hist EXCEPT !.clears = IF handler = "bench" THEN @ + 1 ELSE @]
    /\ pc' = pc + 1
    /\ UNCHANGED <<zBuffer, display, littleEndian, loader, view, line, zMin, lastCall, triOut>>
    /\ UNCHANGED <<handler, tickTodo, benchFrames, benchI, triI, tickFrames>>
    /\ UNCHANGED <<running, rafQueue>>
    /\ UNCHANGED sceneVars

\* this.clearZ()
StepClearZ ==
    /\ Step = "clearZ"
    /\ zBuffer' = clearZ
    /\ iterLog' = Append(iterLog, "clearZ")
    /\ hist' = [hist EXCEPT !.zclears = IF handler = "bench" THEN @ + 1 ELSE @]
    /\ pc' = pc + 1
    /\ UNCHANGED <<data32, display, littleEndian, loader, view, line, zMin, lastCall, triOut>>
    /\ UNCHANGED <<handler, tickTodo, benchFrames, benchI, triI, tickFrames>>
    /\ UNCHANGED <<running, rafQueue>>
    /\ UNCHANGED sceneVars

\* renderPixel reads this.mainCamera!.getForwardVector() before anything else:
\* a TypeError when the camera is null.
RenderPixelThrowsNever(camera) == FALSE
RenderPixelThrows(camera) == ~camera

\* renderPixel, up to the loop over the models.
StepMatrices ==
    /\ Step = "matrices"
    /\ IF RenderPixelThrows(mainCamera)
       THEN /\ Throws
            /\ UNCHANGED triI
       ELSE /\ pc' = pc + 1
            /\ triI' = 1
            /\ UNCHANGED <<handler, iterLog>>
    /\ UNCHANGED <<tickTodo, benchFrames, benchI, tickFrames>>
    /\ UNCHANGED <<running, rafQueue, hist>>
    /\ UNCHANGED sceneVars
    /\ UNCHANGED bufferVars

TriEvents(r) ==
    <<"triangle">> \o (IF r.b.pix > 0 THEN <<"pixel">> ELSE << >>)
                   \o (IF r.b.dep > 0 THEN <<"depth">> ELSE << >>)

\* renderMesh: renderTriangle for the next triangle of the batch.
StepRenderMesh ==
    /\ Step = "renderMesh"
    /\ IF triI > Len(objModels)
       THEN /\ pc' = pc + 1
            /\ UNCHANGED <<handler, iterLog, triI, zBuffer, data32>>
       ELSE LET r == renderTriangle(Bufs, objModels[triI], options, mainCamera,
                                    mainDirectionalLight)
            IN  IF r.threw
                THEN /\ pc' = 0
                     /\ handler' = "none"
                     /\ iterLog' = iterLog \o <<"triangle", "throw">>
                     /\ UNCHANGED <<triI, zBuffer, data32>>
                ELSE /\ zBuffer' = r.b.zb
                     /\ data32' = r.b.fb
                     /\ iterLog' = iterLog \o TriEvents(r)
                     /\ triI' = triI + 1
                     /\ UNCHANGED <<pc, handler>>
    /\ UNCHANGED <<display, littleEndian, loader, view, line, zMin, lastCall, triOut>>
    /\ UNCHANGED <<tickTodo, benchFrames, benchI, tickFrames>>
    /\ UNCHANGED <<running, rafQueue, hist>>
    /\ UNCHANGED sceneVars

\* The end of renderPixel: imageData.data.set(buf8); ctx.putImageData(...).
StepPutImageData ==
    /\ Step = "putImageData"
    /\ display' = [i \in Cells |-> MemBytes(littleEndian, data32[i])]
    /\ iterLog' = Append(iterLog, "putImageData")
    /\ hist' = [hist EXCEPT !.renders = IF handler = "bench" THEN @ + 1 ELSE @]
    /\ pc' = pc + 1
    /\ UNCHANGED <<zBuffer, data32, littleEndian, loader, view, line, zMin, lastCall, triOut>>
    /\ UNCHANGED <<handler, tickTodo, benchFrames, benchI, triI, tickFrames>>
    /\ UNCHANGED <<running, rafQueue>>
    /\ UNCHANGED sceneVars

\* this.present()
StepPresent ==
    /\ Step = "present"
    /\ display' = [i \in Cells |-> MemBytes(littleEndian, data32[i])]
    /\ iterLog' = Append(iterLog, "present")
    /\ hist' = [hist EXCEPT !.presents = IF handler = "bench" THEN @ + 1 ELSE @]
    /\ pc' = pc + 1
    /\ UNCHANGED <<zBuffer, data32, littleEndian, loader, view, line, zMin, lastCall, triOut>>
    /\ UNCHANGED <<handler, tickTodo, benchFrames, benchI, triI, tickFrames>>
    /\ UNCHANGED <<running, rafQueue>>
    /\ UNCHANGED sceneVars

\* The end of the loop callback: the FPS text, then
\* if (this.running) requestAnimationFrame(loop).
StepReschedule ==
    /\ Step = "reschedule"
    /\ rafQueue' = IF running THEN rafQueue + 1 ELSE rafQueue
    /\ pc' = 0
    /\ handler' = "none"
    /\ UNCHANGED <<tickTodo, benchFrames, benchI, triI, iterLog, tickFrames>>
    /\ UNCHANGED <<running, hist>>
    /\ UNCHANGED sceneVars
    /\ UNCHANGED bufferVars

\* benchmark's loop test i < frames.
StepBenchTest ==
    /\ Step = "benchTest"
    /\ IF benchI < benchFrames
       THEN /\ pc' = pc + 1
            /\ iterLog' = << >>
       ELSE /\ pc' = IndexOf(benchBody, "benchReturn")
            /\ UNCHANGED iterLog
    /\ UNCHANGED <<handler, tickTodo, benchFrames, benchI, triI, tickFrames>>
    /\ UNCHANGED <<running, rafQueue, hist>>
    /\ UNCHANGED sceneVars
    /\ UNCHANGED bufferVars

\* benchmark's i++.
StepBenchInc ==
    /\ Step = "benchInc"
    /\ benchI' = benchI + 1
    /\ pc' = IndexOf(benchBody, "benchTest")
    /\ UNCHANGED <<handler, tickTodo, benchFrames, triI, iterLog, tickFrames>>
    /\ UNCHANGED <<running, rafQueue, hist>>
    /\ UNCHANGED sceneVars
    /\ UNCHANGED bufferVars

\* benchmark draws its FPS text and returns.
StepBenchReturn ==
    /\ Step = "benchReturn"
    /\ pc' = 0
    /\ handler' = "none"
    /\ UNCHANGED <<tickTodo, benchFrames, benchI, triI, iterLog, tickFrames>>
    /\ UNCHANGED <<running, rafQueue, hist>>
    /\ UNCHANGED sceneVars
    /\ UNCHANGED bufferVars

NextFrame ==
    \/ setCamera
    \/ setDirectionalLight
    \/ addModel
    \/ start
    \/ stop
    \/ benchmark
    \/ Tick
    \/ LoopBegin
    \/ rasterWorkerMessage
    \/ StepClear
    \/ StepClearZ
    \/ StepMatrices
    \/ StepRenderMesh
    \/ StepPutImageData
    \/ StepPresent
    \/ StepReschedule
    \/ StepBenchTest
    \/ StepBenchInc
    \/ StepBenchReturn

SpecFrame == InitFrame /\ [][NextFrame]_vars

---------------------------------------------------------------------------
(* The frame driver's claims.                                              *)

Writes == {"pixel", "depth"}
Presents == {"putImageData", "present"}
InLog(e) == \E i \in DOMAIN iterLog : iterLog[i] = e
PackedClear == packRGBA(littleEndian, ClearColor[1], ClearColor[2], ClearColor[3], 255)

\* C3 (as claimed): at most one render-loop callback is pending at any time,
\* and no refresh tick renders more than one frame.
C3_OneFramePerTick ==
    /\ rafQueue + tickTodo <= 1
    /\ tickFrames <= 1

\* C4 (as claimed): after stop() (and no start() since), a tick that fires
\* renders no frame: its callback clears, rasterizes and presents nothing.
C4_StoppedTickRendersNothing ==
    (handler = "loop" /\ hist.stopped) => iterLog = << >>

\* C5: in every iteration of the loop and of benchmark, the framebuffer clear
\* and the depth clear come before every pixel or depth write, no write
\* follows a present, a completed iteration has presented, and between the
\* clear and the first pixel write the framebuffer holds the clear colour
\* only (nothing of the previous iteration survives).
C5_ClearThenDrawThenPresent ==
    /\ \A i \in DOMAIN iterLog :
         iterLog[i] \in Writes =>
            /\ \E j \in 1 .. (i - 1) : iterLog[j] = "clear"
            /\ \E j \in 1 .. (i - 1) : iterLog[j] = "clearZ"
    /\ \A i \in DOMAIN iterLog :
         iterLog[i] \in Presents =>
            \A j \in DOMAIN iterLog : j > i => iterLog[j] \notin Writes
    /\ Step \in {"reschedule", "benchInc"} => InLog("present")
    /\ (handler # "none" /\ InLog("clear") /\ ~InLog("pixel")) =>
         \A c \in Cells : data32[c] = PackedClear

\* A loop iteration that drew pixels and presented them, after an earlier
\* frame had already been shown.
C5_Witness ==
    /\ Step = "reschedule"
    /\ InLog("pixel")
    /\ InLog("present")
    /\ \E c \in Cells : data32[c] # PackedClear

C7_NoCameraFrameThrows ==
    (~hist.iterCamera /\ iterLog # << >>) =>
        /\ \A i \in DOMAIN iterLog :
             iterLog[i] \notin (Writes \cup Presents \cup {"triangle"})
        /\ handler = "none" => iterLog[Len(iterLog)] = "throw"

\* A frame of a scene with triangles, started without a camera, has thrown.
C7_Witness ==
    /\ ~hist.iterCamera
    /\ handler = "none"
    /\ Len(objModels) > 0
    /\ iterLog = <<"clear", "clearZ", "throw">>

\* C8 (as claimed): in a frame run while no directional light is set, no
\* triangle is shaded and rasterized, in any shading mode.
C8_NoLightNothingDrawn ==
    ~hist.iterLight => \A i \in DOMAIN iterLog : iterLog[i] \notin Writes

---------------------------------------------------------------------------
(* renderTriangle's claims (SpecTri).                                      *)

\* The projected, unsnapped screen vertices of the triangle.
Projected ==
    transformTriangleToScreen(objModels[1].clip[1], objModels[1].clip[2],
                              objModels[1].clip[3])

Reordered(tri) == [tri EXCEPT !.clip = <<tri.clip[1], tri.clip[3], tri.clip[2]>>]
StageOf(tri) ==
    renderTriangle([zb |-> clearZ, fb |-> ZeroPixels, le |-> littleEndian,
                    pix |-> 0, dep |-> 0, frags |-> << >>],
                   tri, options, TRUE, TRUE).stage

\* C9 (as claimed): a triangle whose projected vertices have positive signed
\* area writes no pixel and no depth cell, in any shading mode; and of the
\* orderings (A,B,C) and (A,C,B) of a triangle with nonzero area that is not
\* wholly off-screen exactly one is culled.
C9_BackFacesDrawNothing ==
    (triOut.done /\ ~Projected.null) =>
        LET v == Projected.v
        IN  /\ area2(v[1], v[2], v[3]) > 0 => (triOut.pix = 0 /\ triOut.dep = 0)
            /\ (area2(v[1], v[2], v[3]) # 0 /\ ~isTriangleClipped(v[1], v[2], v[3])) =>
                 ((StageOf(objModels[1]) = "culled")
                     # (StageOf(Reordered(objModels[1])) = "culled"))

\* C10 (as claimed): a triangle whose three projected vertices all lie outside
\* the screen writes no pixel and no depth cell.
C10_OffscreenDrawsNothing ==
    (triOut.done /\ ~Projected.null) =>
        LET v == Projected.v
        IN  isTriangleClipped(v[1], v[2], v[3]) =>
                (triOut.pix = 0 /\ triOut.dep = 0)

\* A projected vertex inside [0,width) x [0,height).
InsideScreen(v) == ~outOfBounds(v)

\* C11 (as claimed): with shading 'flat' (and a light set), a triangle of
\* nonzero screen-space area that is not back-facing and has at least one
\* projected vertex inside the screen writes at least one pixel of a freshly
\* cleared frame.
C11_VertexInsideDrawsPixel ==
    (triOut.done /\ options.shading = "flat" /\ mainDirectionalLight
       /\ ~Projected.null) =>
        LET v == Projected.v
        IN  (/\ area2(v[1], v[2], v[3]) < 0
             /\ \E k \in 1 .. 3 : InsideScreen(v[k])) => triOut.pix >= 1

\* What renderTriangle decides for the triangle with snapVertices switched off.
UnsnappedStage ==
    renderTriangle([zb |-> clearZ, fb |-> ZeroPixels, le |-> littleEndian,
                    pix |-> 0, dep |-> 0, frags |-> << >>],
                   objModels[1], [options EXCEPT !.snapVertices = FALSE],
                   mainCamera, mainDirectionalLight).stage

Rejection(stage) == IF stage \in {"clipped", "culled"} THEN stage ELSE "kept"

\* C12 (as claimed): whether a triangle is rejected as off-screen or as
\* back-facing is decided on the unsnapped projected coordinates, so with
\* snapVertices on the decision is the one taken with snapVertices off.
C12_SnapKeepsRejections ==
    triOut.done => Rejection(triOut.stage) = Rejection(UnsnappedStage)

---------------------------------------------------------------------------
(* Unprojectable vertices (SpecFrame).                                     *)

HasNullVertex(tri) == \E k \in 1 .. 3 : tri.clip[k].w = 0
Kept(tris) == SelectSeq(tris, LAMBDA t : ~HasNullVertex(t))

\* renderTriangle applied to tris[k], tris[k+1], ... in order.
RECURSIVE RenderAll(_, _, _)
RenderAll(b, tris, k) ==
    IF k > Len(tris) THEN b
    ELSE RenderAll(renderTriangle(b, tris[k], options, mainCamera,
                                  mainDirectionalLight).b, tris, k + 1)

ClearedBufs ==
    [zb |-> clearZ, fb |-> [i \in Cells |-> PackedClear], le |-> littleEndian,
     pix |-> 0, dep |-> 0, frags |-> << >>]

\* The triangles renderMesh has gone through in the current frame.
TrisDone == IF Step = "renderMesh" THEN triI - 1 ELSE Len(objModels)

\* C13: projectVertex yields none exactly for the vertices with clip.w = 0,
\* and at every point of renderMesh the framebuffer and the depth buffer are
\* what rendering the triangles gone through so far gives when those with an
\* unprojectable vertex are left out: a dropped triangle changes neither
\* buffer, and the other triangles are processed as if it were absent.
C13_DroppedTriangleIsAbsent ==
    /\ \A i \in DOMAIN objModels : \A k \in 1 .. 3 :
          projectVertex(objModels[i].clip[k]).null <=> (objModels[i].clip[k].w = 0)
    /\ Step \in {"renderMesh", "putImageData"} =>
          LET e == RenderAll(ClearedBufs, Kept(SubSeq(objModels, 1, TrisDone)), 1)
          IN  zBuffer = e.zb /\ data32 = e.fb

\* renderMesh has finished a batch holding a dropped triangle followed by a
\* triangle that drew pixels.
C13_Witness ==
    /\ Step = "putImageData"
    /\ \E i \in DOMAIN objModels :
          /\ HasNullVertex(objModels[i])
          /\ \E j \in DOMAIN objModels : j > i /\ ~HasNullVertex(objModels[j])
    /\ InLog("pixel")

---------------------------------------------------------------------------
(* Shading claims (SpecTri).                                               *)

\* The colour of pixel c as <<r, g, b, a>>.
PixelRGBA(c) == MemBytes(littleEndian, data32[c])

\* The pixels the triangle covered: those whose depth was written.
Covered == {c \in Cells : zBuffer[c] # PosInf}

\* C14 (as claimed): when the three vertices carry colours (Blinn-Phong mode)
\* the colour written at each covered pixel is interpolated from them, so
\* each channel lies between the least and the greatest of the three vertex
\* colours' channels; when they carry none (flat mode) the colour written is
\* the fallback colour handed to the rasterizer.
C14_VertexColorsInterpolated ==
    (triOut.done /\ ~triOut.threw) =>
        /\ triOut.vc # << >> =>
              \A c \in Covered : \A ch \in 1 .. 3 :
                  /\ \E k \in 1 .. 3 : triOut.vc[k][ch] <= PixelRGBA(c)[ch]
                  /\ \E k \in 1 .. 3 : PixelRGBA(c)[ch] <= triOut.vc[k][ch]
        /\ triOut.stage = "flat" =>
              \A c \in Covered : \A ch \in 1 .. 3 :
                  PixelRGBA(c)[ch] = FlatColor(objModels[1].facing)[ch]

\* C15 (as claimed): in Blinn-Phong mode the colour of corner k of a triangle
\* is computed from the normal of that corner's own vertex slot idx[i + k].
C15_OwnNormalPerVertex ==
    (triOut.done /\ triOut.vc # << >>) =>
        \A k \in 1 .. 3 :
            triOut.vc[k] =
                computeBlinnPhongLighting(
                    objModels[1].normals[objModels[1].idx[k] + 1],
                    mainDirectionalLight)

---------------------------------------------------------------------------
(* Presentation and ownership of the buffers (SpecFrame).                  *)

\* How often the current iteration has copied the pixel store to the canvas.
PresentCount == Cardinality({i \in DOMAIN iterLog : iterLog[i] \in Presents})

\* C16 (as claimed): an iteration of the loop or of benchmark copies the
\* pixel store to the display surface exactly once, after its rasterization,
\* and the display surface never changes between frames.
C16_PresentedOncePerFrame ==
    /\ [](/\ PresentCount <= 1
          /\ Step \in {"reschedule", "benchInc"} => PresentCount = 1)
    /\ [][pc = 0 => display' = display]_vars

\* C17 (as claimed): the framebuffer changes only when the frame driver
\* clears it or the rasterizer draws a triangle, the depth buffer only when
\* the frame driver clears it or the rasterizer draws; no step taken while no
\* frame is executing (a worker message in particular) changes either.
C17_OnlyFrameWritesBuffers ==
    [][/\ data32' # data32 => Step \in {"clear", "renderMesh"}
       /\ zBuffer' # zBuffer => Step \in {"clearZ", "renderMesh"}]_vars

---------------------------------------------------------------------------
(* SpecPixel: the framebuffer under any sequence of setPixel calls, with   *)
(* coordinates inside the canvas and just outside each of its four sides.  *)

PixelXs == {-1, 0, Width - 1, Width}
PixelYs == {-1, 0, 1, Height}
PixelColors == {<<200, 120, 60, 255>>, <<20, 20, 30, 255>>}

InitPixel ==
    /\ BuffersInit
    /\ DriverIdle
    /\ littleEndian \in BOOLEAN
    /\ mainCamera = FALSE
    /\ mainDirectionalLight = FALSE
    /\ options = [shading |-> "none", snapVertices |-> FALSE]
    /\ objModels = << >>
    /\ zMin = [i \in Cells |-> PosInf]
    /\ lastCall = NoCall
    /\ triOut = NoTriOut
    /\ loader = LoaderStart
    /\ view = NoView
    /\ line = NoLine

SetPixelCall ==
    \E x \in PixelXs, y \in PixelYs, c \in PixelColors :
        /\ data32' = setPixel(data32, littleEndian, x, y, c[1], c[2], c[3], c[4])
        /\ lastCall' = [op |-> "setPixel", x |-> x, y |-> y, z |-> 0,
                        ret |-> FALSE, before |-> data32, color |-> c]
        /\ UNCHANGED <<zBuffer, display, littleEndian, loader, view, line, zMin, triOut>>
        /\ UNCHANGED driverVars
        /\ UNCHANGED sceneVars

NextPixel == SetPixelCall

SpecPixel == InitPixel /\ [][NextPixel]_vars

LastInRange ==
    /\ lastCall.x >= 0 /\ lastCall.x < Width
    /\ lastCall.y >= 0 /\ lastCall.y < Height

\* C18: a setPixel call with x < 0, x >= width, y < 0 or y >= height leaves
\* every pixel of the framebuffer as it was; a call with (x, y) in range
\* leaves every pixel but the one at index y*width + x as it was and stores
\* the colour there (its bytes r, g, b, a in memory order).
C18_SetPixelWritesOneCell ==
    lastCall.op = "setPixel" =>
        /\ ~LastInRange => \A i \in Cells : data32[i] = lastCall.before[i]
        /\ LastInRange =>
              /\ \A i \in Cells \ {LastIdx} : data32[i] = lastCall.before[i]
              /\ MemBytes(littleEndian, data32[LastIdx]) = lastCall.color

\* An in-range call that changed its pixel of a framebuffer other pixels of
\* which had been written before.
C18_Witness ==
    /\ lastCall.op = "setPixel"
    /\ LastInRange
    /\ data32[LastIdx] # lastCall.before[LastIdx]
    /\ \E i \in Cells \ {LastIdx} : data32[i] # ZeroPixels[i]

---------------------------------------------------------------------------
(* SpecObj: OBJLoader.parse converting one group to a mesh: the corners of *)
(* its faces are parsed one after the other, a face is closed and          *)
(* triangulated when it has three corners or more (a shorter face makes    *)
(* parse throw), and the mesh is built when the last face is closed.       *)

InitObj ==
    /\ BuffersInit
    /\ DriverIdle
    /\ littleEndian = TRUE
    /\ mainCamera = FALSE
    /\ mainDirectionalLight = FALSE
    /\ options = [shading |-> "none", snapVertices |-> FALSE]
    /\ objModels = << >>
    /\ zMin = [i \in Cells |-> PosInf]
    /\ lastCall = NoCall
    /\ triOut = NoTriOut
    /\ loader = LoaderStart
    /\ view = NoView
    /\ line = NoLine

loaderOthers ==
    <<zBuffer, data32, display, littleEndian, zMin, lastCall, triOut, view, line>>

\* One corner of the current face: resolve its indices, addVertex, push the
\* slot onto faceIndices.
ParseCornerFrom(cs) ==
    /\ loader.phase = "faces"
    /\ loader.corners < MaxCorners
    /\ \E c \in cs :
          LET vIdx == resolveIndex(c[1][1], Len(RawPositions) \div 3)
              vtIdx == ResolveOptional(c[2], Len(RawUVs) \div 2)
              vnIdx == ResolveOptional(c[3], Len(RawNormals) \div 3)
              r == addVertex(loader, vIdx, vtIdx, vnIdx)
          IN  loader' = [r.g EXCEPT !.face = Append(@, r.idx),
                                    !.corners = @ + 1,
                                    !.seen = @ \cup {<<vIdx, vtIdx, vnIdx>>}]
    /\ UNCHANGED loaderOthers
    /\ UNCHANGED driverVars
    /\ UNCHANGED sceneVars

ParseCorner == ParseCornerFrom(Corners)

\* The end of a face: indices.push(...triFan(faceIndices)).
EndFace ==
    /\ loader.phase = "faces"
    /\ Len(loader.face) >= 3
    /\ loader' = [loader EXCEPT !.indices = @ \o triFan(loader.face),
                                !.lastFace = loader.face,
                                !.lastTri = triFan(loader.face),
                                !.face = << >>]
    /\ UNCHANGED loaderOthers
    /\ UNCHANGED driverVars
    /\ UNCHANGED sceneVars

\* The end of the group: the normals are computed when none was given, and
\* the mesh is pushed.
BuildMesh ==
    /\ loader.phase = "faces"
    /\ loader.face = << >>
    /\ loader.indices # << >>
    /\ loader' = [loader EXCEPT !.normals = MeshNormals(loader),
                                !.given = loader.normals,
                                !.synth = needComputeNormals(loader.normals),
                                !.phase = "mesh"]
    /\ UNCHANGED loaderOthers
    /\ UNCHANGED driverVars
    /\ UNCHANGED sceneVars

NextObj == ParseCorner \/ EndFace \/ BuildMesh

SpecObj == InitObj /\ [][NextObj]_vars

NumSlots == Len(loader.positions) \div 3

\* C19: a closed face of n >= 3 corners gives exactly n - 2 triangles, the
\* k-th being (corner 1, corner k + 1, corner k + 2); the group has exactly
\* one vertex slot per distinct triple of resolved (position, uv, normal)
\* indices, holding the position the triple names; so a quad of 4 distinct
\* corners gives 4 positions and 6 indices.
C19_FanAndOneSlotPerTriple ==
    /\ loader.lastFace # << >> =>
          LET f == loader.lastFace
              t == loader.lastTri
          IN  /\ Len(t) = 3 * (Len(f) - 2)
              /\ \A k \in 1 .. (Len(f) - 2) :
                    /\ t[3 * k - 2] = f[1]
                    /\ t[3 * k - 1] = f[k + 1]
                    /\ t[3 * k] = f[k + 2]
    /\ NumSlots = Cardinality(loader.seen)
    /\ \A key \in loader.seen :
          Cardinality({j \in DOMAIN loader.keys : loader.keys[j] = key}) = 1
    /\ \A j \in DOMAIN loader.keys :
          Vec3At(loader.positions, j - 1) = Vec3At(RawPositions, loader.keys[j][1])
    /\ (/\ loader.corners = 4 /\ Len(loader.lastFace) = 4
        /\ Cardinality(loader.seen) = 4) =>
          (Len(loader.positions) = 12 /\ Len(loader.indices) = 6)

\* The mesh of a quad of four distinct corners.
C19_Witness ==
    /\ loader.phase = "mesh"
    /\ Len(loader.lastFace) = 4
    /\ Cardinality(loader.seen) = 4
    /\ Len(loader.positions) = 12
    /\ loader.indices = <<0, 1, 2, 0, 2, 3>>

\* C20: in every mesh parse builds, the number of indices is a multiple of
\* 3, every index is a vertex slot of the mesh (less than positions.length /
\* 3), normals.length equals positions.length, and every vertex slot is
\* referenced by at least one index.
C20_MeshIndicesAndSlots ==
    loader.phase = "mesh" =>
        /\ Len(loader.indices) % 3 = 0
        /\ \A k \in DOMAIN loader.indices :
              loader.indices[k] >= 0 /\ loader.indices[k] < NumSlots
        /\ Len(loader.normals) = Len(loader.positions)
        /\ \A j \in 0 .. (NumSlots - 1) :
              \E k \in DOMAIN loader.indices : loader.indices[k] = j

\* A mesh of two faces that share vertex slots.
C20_Witness ==
    /\ loader.phase = "mesh"
    /\ Len(loader.indices) = 6
    /\ Len(loader.lastFace) = 3
    /\ NumSlots = 4

\* The faces of the group supplied no normal: no corner had a vn component.
NoNormalsSupplied == \A key \in loader.seen : key[3] = << >>

\* The squared length of the normal of vertex slot j.
NormalLenSq(j) ==
    LET n == Vec3At(loader.normals, j)
    IN  n[1] * n[1] + n[2] * n[2] + n[3] * n[3]

\* C21 (as claimed): the normals of a mesh are synthesized exactly when all
\* the normal components gathered from the faces are zero, and in a mesh
\* whose faces supply no normals every synthesized normal has magnitude 1.
C21_SynthesizedNormalsAreUnit ==
    loader.phase = "mesh" =>
        /\ loader.synth <=> (\A k \in DOMAIN loader.given : loader.given[k] = 0)
        /\ NoNormalsSupplied =>
              /\ loader.synth
              /\ \A j \in 0 .. (NumSlots - 1) : NormalLenSq(j) = 1

---------------------------------------------------------------------------
(* SpecObjAny: parse on a file whose faces may name positions the file     *)
(* does not have: the corners "0", "5" and "-5" of a file of 4 positions.  *)

AnyCorners ==
    {<<<<1>>, << >>, << >>>>, <<<<2>>, << >>, << >>>>, <<<<3>>, << >>, << >>>>,
     <<<<0>>, << >>, << >>>>, <<<<5>>, << >>, << >>>>, <<<<-5>>, << >>, << >>>>}

ParseAnyCorner == ParseCornerFrom(AnyCorners)

NextObjAny == ParseAnyCorner \/ EndFace \/ BuildMesh

SpecObjAny == InitObj /\ [][NextObjAny]_vars

\* The positions the file has, as resolved indices.
FilePositions == 0 .. (Len(RawPositions) \div 3 - 1)

\* C22 (as claimed): parse accepts no face corner whose position index is 0
\* or resolves outside the positions read from the file, and every vertex of
\* a mesh it returns is one of the file's positions.
C22_MalformedIndexRejected ==
    /\ \A key \in loader.seen : key[1] \in FilePositions
    /\ loader.phase = "mesh" =>
          \A j \in 0 .. (NumSlots - 1) :
              \E i \in FilePositions :
                  Vec3At(loader.positions, j) = Vec3At(RawPositions, i)

---------------------------------------------------------------------------
(* SpecLookAt: mat4LookAt (Math) on integer eye, target and up vectors.    *)
(*                                                                         *)
(* A component of a normalised row is kept exact as the pair [n, dSq]: the *)
(* number n / sqrt(dSq).  Math.hypot of integers is 0 exactly when they    *)
(* are all 0, so the two "=== 0" tests are exact in the model.             *)

MaxCoord == 1       \* eye, target and up have components in -MaxCoord .. MaxCoord

Vecs == {<<x, y, z>> : x \in (-MaxCoord) .. MaxCoord, y \in (-MaxCoord) .. MaxCoord,
                       z \in (-MaxCoord) .. MaxCoord}

Sub3(a, b) == <<a[1] - b[1], a[2] - b[2], a[3] - b[3]>>
Dot3(a, b) == a[1] * b[1] + a[2] * b[2] + a[3] * b[3]
Cross3(u, v) ==
    <<u[2] * v[3] - u[3] * v[2], u[3] * v[1] - u[1] * v[3],
      u[1] * v[2] - u[2] * v[1]>>

\* let len = Math.hypot(...); if (len === 0) { len = 1; }  -- as len squared.
LenSqOrOne(v) == IF Dot3(v, v) = 0 THEN 1 ELSE Dot3(v, v)

\* mat4LookAt(eye, target, up): the rows x, y, z as [v, dSq] (the vector
\* v / sqrt(dSq)), the translations t as [n, dSq], and the last row.
mat4LookAt(eye, target, up) ==
    LET z == Sub3(eye, target)
        zSq == LenSqOrOne(z)               \* zlen squared
        c == Cross3(up, z)                 \* (xx, xy, xz) times zlen
        xZero == Dot3(c, c) = 0            \* xlen === 0
        xSq == IF xZero THEN zSq ELSE Dot3(c, c)
        y == Cross3(z, c)                  \* zn cross xn, times zlen and sqrt(xSq)
    IN  [x |-> [v |-> c, dSq |-> xSq],
         y |-> [v |-> y, dSq |-> zSq * xSq],
         z |-> [v |-> z, dSq |-> zSq],
         t |-> <<[n |-> -Dot3(c, eye), dSq |-> xSq],
                 [n |-> -Dot3(y, eye), dSq |-> zSq * xSq],
                 [n |-> -Dot3(z, eye), dSq |-> zSq]>>,
         last |-> <<0, 0, 0, 1>>]

InitLookAt ==
    /\ BuffersInit
    /\ DriverIdle
    /\ littleEndian = TRUE
    /\ mainCamera = FALSE
    /\ mainDirectionalLight = FALSE
    /\ options = [shading |-> "none", snapVertices |-> FALSE]
    /\ objModels = << >>
    /\ zMin = [i \in Cells |-> PosInf]
    /\ lastCall = NoCall
    /\ triOut = NoTriOut
    /\ loader = LoaderStart
    /\ line = NoLine
    /\ \E e \in Vecs, u \in Vecs, t \in Vecs :
          /\ t \in {e, <<0, 0, 0>>}
          /\ view = [NoView EXCEPT !.eye = e, !.target = t, !.up = u]

LookAtCall ==
    /\ ~view.done
    /\ view' = [view EXCEPT !.done = TRUE,
                            !.m = mat4LookAt(view.eye, view.target, view.up)]
    /\ UNCHANGED <<zBuffer, data32, display, littleEndian, zMin, lastCall,
                   triOut, loader, line>>
    /\ UNCHANGED driverVars
    /\ UNCHANGED sceneVars

NextLookAt == LookAtCall

SpecLookAt == InitLookAt /\ [][NextLookAt]_vars

\* A row [v, dSq] has length 1: |v|^2 = dSq.
IsUnitRow(row) == row.dSq # 0 /\ Dot3(row.v, row.v) = row.dSq

\* C23 (as claimed): mat4LookAt with eye = target divides by no zero and
\* returns a view matrix whose forward row is nonzero and of unit length
\* and whose last row is [0, 0, 0, 1], for every eye and every up vector.
C23_DegenerateLookAtHasForward ==
    (view.done /\ view.eye = view.target) =>
        /\ view.m.x.dSq # 0 /\ view.m.y.dSq # 0 /\ view.m.z.dSq # 0
        /\ view.m.z.v # <<0, 0, 0>>
        /\ IsUnitRow(view.m.z)
        /\ view.m.last = <<0, 0, 0, 1>>

---------------------------------------------------------------------------
(* SpecScan: drawTriangleScanline as renderTriangle calls it (flat shading, *)
(* a light set), on triangles with vertices on pixel centres, between      *)
(* them, on the screen's edges and far outside it, in every vertex order.  *)

\* Screen positions in sub-pixel units: a screen away to the left / above,
\* between pixels, on a pixel inside, on the first or last pixel, beyond it.
ScanXs == {-(Width * Sub), 1, 2 * Sub, (Width - 1) * Sub, (Width + 2) * Sub}
ScanYs == {-(Height * Sub), 0, Sub, Sub + 1, (Height + 2) * Sub}
ScanPositions == {<<X, Y>> : X \in ScanXs, Y \in ScanYs}

ScanTriangles ==
    {[clip |-> <<ClipOf(p0[1], p0[2], -ClipW), ClipOf(p1[1], p1[2], 0),
                 ClipOf(p2[1], p2[2], ClipW)>>,
      facing |-> 100, idx |-> <<0, 1, 2>>, normals |-> UniformNormals] :
        p0 \in ScanPositions, p1 \in ScanPositions, p2 \in ScanPositions}

InitScan ==
    /\ DriverIdle
    /\ littleEndian = TRUE
    /\ zBuffer = clearZ
    /\ data32 = clear(littleEndian, ClearColor[1], ClearColor[2], ClearColor[3], 255)
    /\ display = ZeroPixels
    /\ mainCamera = TRUE
    /\ mainDirectionalLight = TRUE
    /\ options \in [shading : {"flat"}, snapVertices : BOOLEAN]
    /\ \E t \in ScanTriangles : objModels = <<t>>
    /\ zMin = [i \in Cells |-> PosInf]
    /\ lastCall = NoCall
    /\ triOut = NoTriOut
    /\ loader = LoaderStart
    /\ view = NoView
    /\ line = NoLine

NextScan == RenderTriangleCall

SpecScan == InitScan /\ [][NextScan]_vars

\* The screen vertices handed to drawTriangleScanline.
ScanVerts == SnappedVerts(Projected.v, options)

\* The pixel (x, y) is inside or on the boundary of the triangle v: on one
\* side of its three edges (or on them), and within its bounding box.
OnOrInside(x, y, v) ==
    LET P == [x |-> x * Sub, y |-> y * Sub]
        o1 == area2(v[1], v[2], P)
        o2 == area2(v[2], v[3], P)
        o3 == area2(v[3], v[1], P)
    IN  /\ \/ (o1 >= 0 /\ o2 >= 0 /\ o3 >= 0)
           \/ (o1 <= 0 /\ o2 <= 0 /\ o3 <= 0)
        /\ \E i \in 1 .. 3 : v[i].x <= P.x
        /\ \E i \in 1 .. 3 : v[i].x >= P.x
        /\ \E i \in 1 .. 3 : v[i].y <= P.y
        /\ \E i \in 1 .. 3 : v[i].y >= P.y

SpanIsPoint(v, y) ==
    LET s == SortByY(v)
        i1 == interpolateEdge(precomputeEdge(s[1], s[3]), y)
        i2 == IF y * Sub < s[2].y THEN interpolateEdge(precomputeEdge(s[1], s[2]), y)
              ELSE interpolateEdge(precomputeEdge(s[2], s[3]), y)
    IN  i1[1] * i2[2] = i2[1] * i1[2]

ZeroHeight(v) == v[1].y = v[2].y /\ v[2].y = v[3].y

\* C25 (as claimed): drawTriangleScanline produces no pixel for a triangle
\* whose three vertices have the same y, and none on a scanline whose left
\* and right intersections coincide, integer coordinates included.
C25_DegenerateSpansDrawNothing ==
    triOut.done =>
        /\ ZeroHeight(ScanVerts) => triOut.frags = << >>
        /\ \A k \in DOMAIN triOut.frags :
              ~SpanIsPoint(ScanVerts, triOut.frags[k][2])

---------------------------------------------------------------------------
(* SpecOrder: the buffers over one frame of flat-shaded triangles of       *)
(* constant depth that overlap on the screen: the loop callback clears     *)
(* both buffers, then renderMesh hands the triangles to renderTriangle in  *)
(* the order of the mesh.                                                  *)

\* A clip z that projects to the depth d.
ClipZFor(d) ==
    CHOOSE cz \in (-ClipW) .. ClipW : QuotRound((cz + ClipW) * MaxZ, 2 * ClipW) = d

\* Two front-facing outlines, the second inside the first.
OrderShapes ==
    {<<<<1, 1>>, <<1, (Height - 1) * Sub + 1>>, <<(Width - 1) * Sub + 1, 1>>>>,
     <<<<Sub, Sub>>, <<Sub, (Height - 1) * Sub>>, <<(Width - 1) * Sub, Sub>>>>}
OrderDepths == {0, 1, 3}
OrderFacings == {100, 40}

OrderTriangles ==
    {[clip |-> <<ClipOf(g[1][1], g[1][2], ClipZFor(d)),
                 ClipOf(g[2][1], g[2][2], ClipZFor(d)),
                 ClipOf(g[3][1], g[3][2], ClipZFor(d))>>,
      facing |-> f, idx |-> <<0, 1, 2>>, normals |-> UniformNormals] :
        g \in OrderShapes, d \in OrderDepths, f \in OrderFacings}

OrderScenes == UNION {[1 .. n -> OrderTriangles] : n \in 1 .. MaxTris}

InitOrder ==
    /\ BuffersInit
    /\ DriverIdle
    /\ littleEndian = TRUE
    /\ mainCamera = TRUE
    /\ mainDirectionalLight = TRUE
    /\ options = [shading |-> "flat", snapVertices |-> FALSE]
    /\ objModels \in OrderScenes
    /\ zMin = [i \in Cells |-> PosInf]
    /\ lastCall = NoCall
    /\ triOut = NoTriOut
    /\ loader = LoaderStart
    /\ view = NoView
    /\ line = NoLine

orderOthers ==
    <<display, littleEndian, loader, view, line, zMin, lastCall, triOut, running,
      rafQueue, pc, handler, tickTodo, benchFrames, benchI, iterLog, tickFrames,
      hist>>

\* this.clear(20, 20, 30); this.clearZ(): the start of the frame.
FrameClear ==
    /\ triI = 0
    /\ data32' = clear(littleEndian, ClearColor[1], ClearColor[2], ClearColor[3], 255)
    /\ zBuffer' = clearZ
    /\ triI' = 1
    /\ UNCHANGED orderOthers
    /\ UNCHANGED sceneVars

\* renderMesh: renderTriangle on the next triangle of the mesh.
FrameTriangle ==
    /\ triI >= 1
    /\ triI <= Len(objModels)
    /\ LET r == renderTriangle(Bufs, objModels[triI], options, mainCamera,
                               mainDirectionalLight)
       IN  /\ zBuffer' = r.b.zb
           /\ data32' = r.b.fb
    /\ triI' = triI + 1
    /\ UNCHANGED orderOthers
    /\ UNCHANGED sceneVars

NextOrder == FrameClear \/ FrameTriangle

SpecOrder == InitOrder /\ [][NextOrder]_vars

FrameDone == triI = Len(objModels) + 1

\* The fragments the triangle tri submits, each <<x, y, z, colour>>.
FragmentsOf(tri) ==
    LET t == transformTriangleToScreen(tri.clip[1], tri.clip[2], tri.clip[3])
        fs == IF StageOf(tri) = "flat" THEN ScanFragments(t.v[1], t.v[2], t.v[3])
              ELSE << >>
    IN  [k \in DOMAIN fs |-> <<fs[k][1], fs[k][2], fs[k][3], FlatColor(tri.facing)>>]

\* The fragments of the frame, in submission order.
RECURSIVE FragmentsFrom(_, _)
FragmentsFrom(tris, k) ==
    IF k > Len(tris) THEN << >>
    ELSE FragmentsOf(tris[k]) \o FragmentsFrom(tris, k + 1)

\* The fragments submitted for the cell c, in submission order.
FragmentsAt(c) ==
    SelectSeq(FragmentsFrom(objModels, 1), LAMBDA f : f[2] * Width + f[1] = c)

\* The earliest of the fragments fs among those of least depth.
NearestEarliest(fs) ==
    fs[CHOOSE i \in DOMAIN fs :
          /\ \A j \in DOMAIN fs : fs[i][3] <= fs[j][3]
          /\ \A j \in 1 .. (i - 1) : fs[j][3] > fs[i][3]]

DistinctDepths ==
    \A c \in Cells :
        LET fs == FragmentsAt(c)
        IN  \A i \in DOMAIN fs : \A j \in DOMAIN fs : i # j => fs[i][3] # fs[j][3]

Reverse(s) == [k \in DOMAIN s |-> s[Len(s) + 1 - k]]

\* C26 (as claimed): at the end of a frame a pixel no fragment was submitted
\* for holds the clear colour and depth +infinity, any other pixel holds the
\* colour of the earliest-submitted fragment among those of least depth at
\* that pixel, and when the depths of the fragments of each pixel are
\* pairwise distinct the image is the same for the triangles submitted in
\* the opposite order.
C26_NearestEarliestFragmentWins ==
    FrameDone =>
        /\ \A c \in Cells :
              LET fs == FragmentsAt(c)
              IN  IF fs = << >>
                  THEN data32[c] = PackedClear /\ zBuffer[c] = PosInf
                  ELSE LET w == NearestEarliest(fs)[4]
                       IN  data32[c] = packRGBA(littleEndian, w[1], w[2], w[3], 255)
        /\ DistinctDepths =>
              data32 = RenderAll(ClearedBufs, Reverse(objModels), 1).fb

---------------------------------------------------------------------------
(* The running flag and the pending callbacks (SpecFrame).                 *)

\* C27 (as claimed): while running is true and no frame is executing, a
\* render-loop callback is pending, so the flag is never true on a renderer
\* that will render no further frame and start() is never a silent no-op on
\* such a renderer.
C27_RunningHasCallbackPending ==
    (running /\ Quiet) => rafQueue >= 1

\* stop() is called on a running renderer in this step.
StopsRunning == running /\ ~running' /\ hist'.stopped

\* stop() was called, start() was not called since, and every callback that
\* was pending has run.
StoppedAndDrained ==
    /\ hist.stopped
    /\ rafQueue = 0
    /\ tickTodo = 0
    /\ handler # "loop"

\* C28 (as claimed): after stop() on a running renderer, with no start()
\* since, at most one further frame is rendered (each pending callback
\* renders one frame, so at most one callback is pending when stop() is
\* called), and once it has run no callback is pending and neither the
\* framebuffer nor the depth buffer changes again.
C28_StopLeavesOneFrame ==
    [][/\ StopsRunning => rafQueue <= 1
       /\ (StoppedAndDrained /\ hist'.stopped) =>
             /\ rafQueue' = 0
             /\ data32' = data32
             /\ zBuffer' = zBuffer]_vars

---------------------------------------------------------------------------
(* Shading modes that draw nothing (SpecFrame).                            *)

\* The steps of a frame that follow its clear() and clearZ().
AfterClears ==
    {"matrices", "renderMesh", "putImageData", "present", "reschedule", "benchInc"}

---------------------------------------------------------------------------
(* SpecLine: Renderer.drawLine3DEFLA on integer endpoints, on a cleared    *)
(* depth buffer and a new pixel store.                                     *)

Fix16 == 65536      \* 1 << 16: the fixed-point unit of the accumulators

\* The branch of the loop: the axis of longLen, tested as the code tests it.
LongAxis(dx, dy, dz) ==
    LET longLen == Max2(Max2(dx, dy), dz)
    IN  IF longLen = dx THEN "x" ELSE IF longLen = dy THEN "y" ELSE "z"

\* j += decInc with decInc = (shortLen << 16) / longLen (0 when shortLen is
\* 0), as the 32-bit integer the operators >> and & see: the sum truncated.
AccAdd(j, shortLen, longLen) ==
    IF shortLen = 0 THEN j ELSE (j * longLen + shortLen * Fix16) \div longLen

\* The points of iterations i .. longLen, in order: p is (x0, y0, z0) at the
\* top of iteration i, j1 and j2 the accumulators.
RECURSIVE LinePointsFrom(_, _, _, _, _, _)
LinePointsFrom(p, j, i, d, sgn, longLen) ==
    IF i > longLen THEN << >>
    ELSE LET axis == LongAxis(d[1], d[2], d[3])
             s1 == IF axis = "x" THEN d[2] ELSE d[1]         \* shortLen1
             s2 == IF axis = "z" THEN d[2] ELSE d[3]         \* shortLen2
             a1 == AccAdd(j[1], s1, longLen)
             a2 == AccAdd(j[2], s2, longLen)
             c1 == a1 \div Fix16                             \* j1 >> 16
             c2 == a2 \div Fix16                             \* j2 >> 16
             q == IF axis = "x"
                  THEN <<p[1] + sgn[1], p[2] + c1 * sgn[2], p[3] + c2 * sgn[3]>>
                  ELSE IF axis = "y"
                  THEN <<p[1] + c1 * sgn[1], p[2] + sgn[2], p[3] + c2 * sgn[3]>>
                  ELSE <<p[1] + c1 * sgn[1], p[2] + c2 * sgn[2], p[3] + sgn[3]>>
         IN  <<p>> \o LinePointsFrom(q, <<a1 % Fix16, a2 % Fix16>>, i + 1, d,
                                     sgn, longLen)

\* drawLine3DEFLA(x0, y0, z0, x1, y1, z1, r, g, b) on the buffers b.
drawLine3DEFLA(b, from, to, color) ==
    LET d == <<Abs(to[1] - from[1]), Abs(to[2] - from[2]), Abs(to[3] - from[3])>>
        sgn == <<IF from[1] < to[1] THEN 1 ELSE -1,
                 IF from[2] < to[2] THEN 1 ELSE -1,
                 IF from[3] < to[3] THEN 1 ELSE -1>>
        longLen == Max2(Max2(d[1], d[2]), d[3])
    IN  ApplyFragments(b, LinePointsFrom(from, <<0, 0>>, 0, d, sgn, longLen), 1,
                       color)

\* Endpoints on the screen and one pixel outside it, at the near or far depth.
LineEnds ==
    {<<x, y, z>> : x \in (-1) .. Width, y \in (-1) .. Height, z \in {0, MaxZ}}

LineColor == <<255, 255, 255>>

InitLine ==
    /\ BuffersInit
    /\ DriverIdle
    /\ littleEndian = TRUE
    /\ mainCamera = FALSE
    /\ mainDirectionalLight = FALSE
    /\ options = [shading |-> "wireframe", snapVertices |-> FALSE]
    /\ objModels = << >>
    /\ zMin = [i \in Cells |-> PosInf]
    /\ lastCall = NoCall
    /\ triOut = NoTriOut
    /\ loader = LoaderStart
    /\ view = NoView
    /\ \E p \in LineEnds, q \in LineEnds :
          line = [NoLine EXCEPT !.from = p, !.to = q]

DrawLineCall ==
    /\ ~line.done
    /\ LET b == drawLine3DEFLA(Bufs, line.from, line.to, LineColor)
       IN  /\ zBuffer' = b.zb
           /\ data32' = b.fb
           /\ line' = [line EXCEPT !.done = TRUE, !.plotted = b.frags]
    /\ UNCHANGED <<display, littleEndian, zMin, lastCall, triOut, loader, view>>
    /\ UNCHANGED driverVars
    /\ UNCHANGED sceneVars

NextLine == DrawLineCall

SpecLine == InitLine /\ [][NextLine]_vars

Plotted(x, y) == \E k \in DOMAIN line.plotted : line.plotted[k] = <<x, y>>

\* C30 (as claimed): for any integer endpoints, outside the screen included,
\* drawLine3DEFLA changes the depth cell of a pixel only if it also writes
\* that pixel's colour, and it plots both the start point and the end point
\* (x1, y1) of the line.
C30_LineKeepsDepthAndColourPaired ==
    line.done =>
        /\ \A c \in Cells :
              zBuffer[c] # clearZ[c] =>
                  data32[c] = packRGBA(littleEndian, LineColor[1], LineColor[2],
                                       LineColor[3], 255)
        /\ Plotted(line.from[1], line.from[2])
        /\ Plotted(line.to[1], line.to[2])

====
